---- MODULE Spec2Model ----
(***************************************************************************)
(* Genesis bootstrap assembly: x/genutil/collect.go                        *)
(*   GenAppStateFromConfig  - orchestrates the run and writes the two      *)
(*                            artifacts (config.toml, genesis document)    *)
(*   CollectStdTxs          - reads the gentx directory, validates every   *)
(*                            transaction and builds the peer list         *)
(* One run is a sequence of steps; pc names the statement about to run.    *)
(* Strings that are sorted or joined are sequences of byte values.         *)
(***************************************************************************)
EXTENDS Integers, Sequences, FiniteSets, TLC

VARIABLES
    dir,              \* input: the gentx directory, file name -> entry
    config,           \* input/in-memory: cfg.Config (Moniker, P2P.PersistentPeers)
    genDoc,           \* input: the draft tmtypes.GenesisDoc (ChainID, AppState)
    pc,               \* position in GenAppStateFromConfig / CollectStdTxs
    fos,              \* CollectStdTxs: the directory listing (sequence of names)
    idx,              \* CollectStdTxs: position of the range loop in fos
    addrMap,          \* CollectStdTxs: address -> account
    appGenTxs,        \* CollectStdTxs: the transactions decoded so far
    addressesIPs,     \* CollectStdTxs: the collected memo strings
    persistentPeers,  \* CollectStdTxs: the returned peer-list string
    appState,         \* GenAppStateFromConfig: the marshalled app state
    err,              \* result of the run: NoErr while running, Ok, an error, or Panic
    configFile,       \* <root>/config/config.toml as written by this run
    genesisFile,      \* config.GenesisFile() as written by this run
    readFiles,        \* history: the names ioutil.ReadFile was called on
    run,              \* 1 for the first run, 2 for the re-run on the same inputs
    prev              \* the artifacts and result of the first run

vars == <<dir, config, genDoc, pc, fos, idx, addrMap, appGenTxs, addressesIPs,
          persistentPeers, appState, err, configFile, genesisFile, readFiles,
          run, prev>>

-----------------------------------------------------------------------------
(* Bounds of the model *)

\* number of file names the gentx directory may hold
MaxFiles == 2

\* longest embedded-message sequence of a transaction
MaxMsgs == 2

-----------------------------------------------------------------------------
(* Values *)

\* a file this run has not written, and a file written with content x
NotWritten == << >>
Written(x) == <<x>>

\* serialized bytes: a well-formed JSON object (its key/value pairs) or garbage
Raw(pairs) == [wellFormed |-> TRUE, pairs |-> pairs]
Malformed == [wellFormed |-> FALSE, pairs |-> << >>]

NoErr == "NoErr"
Ok == "Ok"
Panic == "Panic"
ErrReadDir == "ErrReadDir"
ErrUnmarshalAppState == "ErrUnmarshalAppState"
ErrReadFile == "ErrReadFile"
ErrUnmarshalTx == "ErrUnmarshalTx"
ErrNoMemo == "ErrNoMemo"
ErrNotSingleMsg == "ErrNotSingleMsg"
ErrAccountNotInGenesis == "ErrAccountNotInGenesis"
ErrNoGenTxs == "ErrNoGenTxs"
ErrExportGenesisFile == "ErrExportGenesisFile"

\* the errors of the structural/referential checks of one transaction
ValidationErrors == {ErrNoMemo, ErrNotSingleMsg, ErrAccountNotInGenesis}

\* every value a run can end with that is an error returned to the caller
ReturnedErrors == {ErrReadDir, ErrUnmarshalAppState, ErrReadFile, ErrUnmarshalTx,
                   ErrNoMemo, ErrNotSingleMsg, ErrAccountNotInGenesis,
                   ErrNoGenTxs, ErrExportGenesisFile}

\* the separator of strings.Join(addressesIPs, ",")
Comma == 44

\* memo strings, as byte sequences: "", "b", "a,b"
EmptyMemo == << >>
MemoB == <<98>>
MemoAB == <<97, Comma, 98>>
NonEmptyMemos == {MemoB, MemoAB}

Addrs == {"addr1", "addr2"}
Monikers == {"alice", "bob"}

MsgCreateValidator(signer, name) ==
    [kind |-> "MsgCreateValidator", Signer |-> signer, Name |-> name]

\* a message of any other concrete type
MsgOther == [kind |-> "MsgOther", Signer |-> "addr1", Name |-> "alice"]

StdTx(memo, msgs) == [Memo |-> memo, Msgs |-> msgs]

CreateValidatorMsgs == {MsgCreateValidator(a, n) : a \in Addrs, n \in Monikers}

\* transactions that pass every structural check (the signer may be unknown)
WellFormedTxs == {StdTx(m, <<msg>>) : m \in NonEmptyMemos, msg \in CreateValidatorMsgs}

NoMemoTxs == {StdTx(EmptyMemo, <<MsgCreateValidator("addr1", "alice")>>),
              StdTx(EmptyMemo, <<MsgCreateValidator("addr2", "bob")>>)}

NotSingleMsgTxs ==
    {StdTx(MemoB, [i \in 1..n |-> MsgCreateValidator("addr2", "bob")]) :
        n \in {0} \cup (2..MaxMsgs)}

WrongKindTxs == {StdTx(MemoB, <<MsgOther>>)}

Txs == WellFormedTxs \cup NoMemoTxs \cup NotSingleMsgTxs \cup WrongKindTxs

NoTx == StdTx(EmptyMemo, << >>)

\* a directory entry: os.FileInfo plus what reading and decoding it gives
DirEntry(isDir, ext, readable, decodable, tx) ==
    [isDir |-> isDir, ext |-> ext, readable |-> readable,
     decodable |-> decodable, tx |-> tx]

Entries ==
    {DirEntry(TRUE, e, FALSE, FALSE, NoTx) : e \in {".json", ""}}
    \cup {DirEntry(FALSE, ".txt", TRUE, FALSE, NoTx)}
    \cup {DirEntry(FALSE, ".json", FALSE, FALSE, NoTx)}
    \cup {DirEntry(FALSE, ".json", TRUE, FALSE, NoTx)}
    \cup {DirEntry(FALSE, ".json", TRUE, TRUE, tx) : tx \in Txs}

\* file names, numbered in their lexicographic order
FileNames == 1..MaxFiles

-----------------------------------------------------------------------------
(* Helpers *)

Range(s) == {s[i] : i \in 1..Len(s)}

Perms(S) == {p \in [1..Cardinality(S) -> S] : \A i, j \in 1..Cardinality(S) :
                                                  p[i] = p[j] => i = j}


\* s < t in byte-wise lexicographic order (Go's string <)
LexLess(s, t) ==
    \E i \in 1..Len(t) :
        /\ \A j \in 1..(i - 1) : j <= Len(s) /\ s[j] = t[j]
        /\ (i > Len(s) \/ s[i] < t[i])

\* sort.Slice by Name(): insertion of one file name into a sorted listing
RECURSIVE InsertName(_, _)
InsertName(x, s) ==
    IF s = << >> THEN <<x>>
    ELSE IF x < Head(s) THEN <<x>> \o s
    ELSE <<Head(s)>> \o InsertName(x, Tail(s))

\* ioutil.ReadDir without its sort: the listing as the OS returned it
SortByName_Unsorted(list) == list

\* ioutil.ReadDir returns the entries sorted by file name
RECURSIVE SortByName(_)
SortByName(list) ==
    IF list = << >> THEN << >>
    ELSE InsertName(Head(list), SortByName(Tail(list)))

\* insertion of one string into a sorted sequence of strings
RECURSIVE InsertString(_, _)
InsertString(x, s) ==
    IF s = << >> THEN <<x>>
    ELSE IF LexLess(x, Head(s)) THEN <<x>> \o s
    ELSE <<Head(s)>> \o InsertString(x, Tail(s))

\* sort.Strings left out
SortStrings_Unsorted(list) == list

\* sort.Strings(addressesIPs)
RECURSIVE SortStrings(_)
SortStrings(list) ==
    IF list = << >> THEN << >>
    ELSE InsertString(Head(list), SortStrings(Tail(list)))

\* strings.Join(list, sep)
RECURSIVE Join(_, _)
Join(list, sep) ==
    IF list = << >> THEN << >>
    ELSE IF Len(list) = 1 THEN list[1]
    ELSE list[1] \o sep \o Join(Tail(list), sep)

\* the module names of the application state, in the order the codec writes keys
ModuleOrder == <<"auth", "genutil", "validator">>

\* the slot of the application state that holds the genesis transactions
GenutilModule == "genutil"

\* codec.MarshalJSONIndent of a map: the key/value pairs, keys in sorted order
MarshalJSON(m) ==
    LET InMap(k) == k \in DOMAIN m
        keys == SelectSeq(ModuleOrder, InMap)
    IN  Raw([i \in 1..Len(keys) |-> <<keys[i], m[keys[i]]>>])

\* cdc.UnmarshalJSON into map[string]json.RawMessage
UnmarshalJSON(raw) ==
    LET kv == raw.pairs
    IN  [k \in {kv[i][1] : i \in 1..Len(kv)} |->
            kv[CHOOSE i \in 1..Len(kv) :
                   /\ kv[i][1] = k
                   /\ \A j \in 1..Len(kv) : kv[j][1] = k => j <= i][2]]

\* whether cdc.UnmarshalJSON accepts the bytes
Decodes(raw) == raw.wellFormed

\* the draft application state holding the given accounts
DraftAppState(accounts) ==
    [m \in Range(ModuleOrder) |->
        IF m = "auth" THEN accounts
        ELSE IF m = GenutilModule THEN << >>
        ELSE <<"validators">>]

Account(a) == [Address |-> a]

AccountLists == {<<Account("addr1")>>, <<Account("addr1"), Account("addr2")>>}

\* genAccIterator.IterateGenesisAccounts with the callback of CollectStdTxs:
\* every account of the auth slot is stored under its address, the last one wins
IterateGenesisAccounts(state) ==
    LET accounts == IF "auth" \in DOMAIN state THEN state["auth"] ELSE << >>
    IN  [a \in {accounts[i].Address : i \in 1..Len(accounts)} |->
            accounts[CHOOSE i \in 1..Len(accounts) :
                        /\ accounts[i].Address = a
                        /\ \A j \in 1..Len(accounts) :
                               accounts[j].Address = a => j <= i]]

\* the entries of the directory (the file names present)
Present(d) == DOMAIN d

\* the loop body runs for an entry unless it is a non-directory without .json
Selected(fo) == ~(~fo.isDir /\ fo.ext # ".json")

\* ioutil.ReadFile succeeds on a readable regular file (a directory gives EISDIR)
ReadFileOk(fo) == ~fo.isDir /\ fo.readable

\* a message sequence of any length >= 1 let through
SingleMessage_AtLeastOne(msgs) == Len(msgs) >= 1

\* len(msgs) != 1 fails the transaction
SingleMessage(msgs) == Len(msgs) = 1

\* msgs[0].(validator.MsgCreateValidator) succeeds
IsCreateValidator(msg) == msg.kind = "MsgCreateValidator"

\* the account lookup left out
KnownSigner_Always(account, map) == TRUE

\* _, valOk := addrMap[account]
KnownSigner(account, map) == account \in DOMAIN map

\* the self-exclusion left out
IncludePeer_Always(msg, name) == TRUE

\* msg.Description.Name != name
IncludePeer(msg, name) == msg.Name # name

\* the decoded transaction put in front instead of appended
AppendGenTx_Prepended(txs, tx) == <<tx>> \o txs

\* appGenTxs = append(appGenTxs, genStdTx)
AppendGenTx(txs, tx) == Append(txs, tx)

\* SetGenTxsInAppGenesisState: the genutil slot becomes the transactions,
\* every other slot is kept
SetGenTxsInAppGenesisState(state, txs) ==
    [k \in DOMAIN state \cup {GenutilModule} |->
        IF k = GenutilModule THEN txs ELSE state[k]]

\* GenesisStateFromGenDoc: the application state of the document as a map
GenesisStateFromGenDoc(doc) == UnmarshalJSON(doc.AppState)

-----------------------------------------------------------------------------
(* The state before a run *)

Config(moniker) == [Moniker |-> moniker, PersistentPeers |-> << >>]

GenesisDoc(raw) == [ChainID |-> "chain", AppState |-> raw]

Init ==
    /\ dir \in UNION {[S -> Entries] : S \in SUBSET FileNames}
    /\ config \in {Config(m) : m \in Monikers}
    /\ genDoc \in {GenesisDoc(MarshalJSON(DraftAppState(accs))) : accs \in AccountLists}
                  \cup {GenesisDoc(Malformed)}
    /\ pc = "ReadDir"
    /\ fos = << >>
    /\ idx = 1
    /\ addrMap = << >>
    /\ appGenTxs = << >>
    /\ addressesIPs = << >>
    /\ persistentPeers = << >>
    /\ appState = Raw(<< >>)
    /\ err = NoErr
    /\ configFile = NotWritten
    /\ genesisFile = NotWritten
    /\ readFiles = << >>
    /\ run = 1
    /\ prev = << >>

inputs == <<dir, genDoc, run, prev>>
files == <<configFile, genesisFile>>
collected == <<appGenTxs, addressesIPs, persistentPeers>>

\* CollectStdTxs returns err and GenAppStateFromConfig returns it at once
ReturnErr(e) ==
    /\ pc' = "done"
    /\ err' = e

-----------------------------------------------------------------------------
(* CollectStdTxs *)

\* ioutil.ReadDir fails: the directory cannot be listed
ReadDirFail ==
    /\ pc = "ReadDir"
    /\ ReturnErr(ErrReadDir)
    /\ UNCHANGED <<inputs, config, files, collected, fos, idx, addrMap, appState,
                   readFiles>>

\* ioutil.ReadDir, first half: the OS hands the entries over in any order
ReadDir ==
    /\ pc = "ReadDir"
    /\ \E p \in Perms(Present(dir)) : fos' = p
    /\ pc' = "SortDir"
    /\ UNCHANGED <<inputs, config, files, collected, idx, addrMap, appState,
                   readFiles, err>>

\* ioutil.ReadDir, second half: the listing is sorted by file name
SortDir ==
    /\ pc = "SortDir"
    /\ fos' = SortByName(fos)
    /\ pc' = "UnmarshalAppState"
    /\ UNCHANGED <<inputs, config, files, collected, idx, addrMap, appState,
                   readFiles, err>>

\* cdc.UnmarshalJSON(genDoc.AppState, &appState) fails
UnmarshalAppStateFail ==
    /\ pc = "UnmarshalAppState"
    /\ ~Decodes(genDoc.AppState)
    /\ ReturnErr(ErrUnmarshalAppState)
    /\ UNCHANGED <<inputs, config, files, collected, fos, idx, addrMap, appState,
                   readFiles>>

\* the draft application state decodes and the account index is built from it
BuildAddrMap ==
    /\ pc = "UnmarshalAppState"
    /\ Decodes(genDoc.AppState)
    /\ addrMap' = IterateGenesisAccounts(UnmarshalJSON(genDoc.AppState))
    /\ pc' = "Loop"
    /\ UNCHANGED <<inputs, config, files, collected, fos, idx, appState,
                   readFiles, err>>

InLoop == pc = "Loop" /\ idx <= Len(fos)

\* the entry the loop is at
Fo == dir[fos[idx]]

\* a non-directory without the .json extension: continue
SkipEntry ==
    /\ InLoop
    /\ ~Selected(Fo)
    /\ idx' = idx + 1
    /\ UNCHANGED <<inputs, config, files, collected, fos, addrMap, appState,
                   readFiles, err, pc>>

\* ioutil.ReadFile(filename) fails
ReadFileFail ==
    /\ InLoop
    /\ Selected(Fo)
    /\ ~ReadFileOk(Fo)
    /\ readFiles' = Append(readFiles, fos[idx])
    /\ ReturnErr(ErrReadFile)
    /\ UNCHANGED <<inputs, config, files, collected, fos, idx, addrMap, appState>>

\* cdc.UnmarshalJSON(jsonRawTx, &genStdTx) fails
UnmarshalTxFail ==
    /\ InLoop
    /\ Selected(Fo)
    /\ ReadFileOk(Fo)
    /\ ~Fo.decodable
    /\ readFiles' = Append(readFiles, fos[idx])
    /\ ReturnErr(ErrUnmarshalTx)
    /\ UNCHANGED <<inputs, config, files, collected, fos, idx, addrMap, appState>>

\* the file was read and decoded into genStdTx, which is appended to appGenTxs
Decoded ==
    /\ InLoop
    /\ Selected(Fo)
    /\ ReadFileOk(Fo)
    /\ Fo.decodable
    /\ readFiles' = Append(readFiles, fos[idx])
    /\ appGenTxs' = AppendGenTx(appGenTxs, Fo.tx)

\* len(nodeAddrIP) == 0
NoMemo ==
    /\ Decoded
    /\ Len(Fo.tx.Memo) = 0
    /\ ReturnErr(ErrNoMemo)
    /\ UNCHANGED <<inputs, config, files, addressesIPs, persistentPeers, fos, idx,
                   addrMap, appState>>

\* len(msgs) != 1
NotSingleMsg ==
    /\ Decoded
    /\ Len(Fo.tx.Memo) # 0
    /\ ~SingleMessage(Fo.tx.Msgs)
    /\ ReturnErr(ErrNotSingleMsg)
    /\ UNCHANGED <<inputs, config, files, addressesIPs, persistentPeers, fos, idx,
                   addrMap, appState>>

\* msgs[0].(validator.MsgCreateValidator) on a message of another type:
\* the unchecked type assertion panics
AssertionPanic ==
    /\ Decoded
    /\ Len(Fo.tx.Memo) # 0
    /\ SingleMessage(Fo.tx.Msgs)
    /\ ~IsCreateValidator(Fo.tx.Msgs[1])
    /\ pc' = "done"
    /\ err' = Panic
    /\ UNCHANGED <<inputs, config, files, addressesIPs, persistentPeers, fos, idx,
                   addrMap, appState>>

\* the signer is no key of addrMap
AccountNotInGenesis ==
    /\ Decoded
    /\ Len(Fo.tx.Memo) # 0
    /\ SingleMessage(Fo.tx.Msgs)
    /\ IsCreateValidator(Fo.tx.Msgs[1])
    /\ ~KnownSigner(Fo.tx.Msgs[1].Signer, addrMap)
    /\ ReturnErr(ErrAccountNotInGenesis)
    /\ UNCHANGED <<inputs, config, files, addressesIPs, persistentPeers, fos, idx,
                   addrMap, appState>>

\* the transaction passes; its memo joins the peers unless it is this node's
AcceptTx ==
    /\ Decoded
    /\ Len(Fo.tx.Memo) # 0
    /\ SingleMessage(Fo.tx.Msgs)
    /\ IsCreateValidator(Fo.tx.Msgs[1])
    /\ KnownSigner(Fo.tx.Msgs[1].Signer, addrMap)
    /\ addressesIPs' = IF IncludePeer(Fo.tx.Msgs[1], config.Moniker)
                       THEN Append(addressesIPs, Fo.tx.Memo)
                       ELSE addressesIPs
    /\ idx' = idx + 1
    /\ UNCHANGED <<inputs, config, files, persistentPeers, fos, addrMap, appState,
                   err, pc>>

\* after the loop: sort.Strings, strings.Join, return nil
SortAndJoin ==
    /\ pc = "Loop"
    /\ idx > Len(fos)
    /\ addressesIPs' = SortStrings(addressesIPs)
    /\ persistentPeers' = Join(addressesIPs', <<Comma>>)
    /\ pc' = "WriteConfig"
    /\ UNCHANGED <<inputs, config, files, appGenTxs, fos, idx, addrMap, appState,
                   readFiles, err>>

-----------------------------------------------------------------------------
(* GenAppStateFromConfig, after CollectStdTxs returned without error *)

\* config.P2P.PersistentPeers = persistentPeers; cfg.WriteConfigFile(...)
WriteConfigFile ==
    /\ pc = "WriteConfig"
    /\ config' = [config EXCEPT !.PersistentPeers = persistentPeers]
    /\ configFile' = Written(config')
    /\ pc' = "CheckEmpty"
    /\ UNCHANGED <<inputs, genesisFile, collected, fos, idx, addrMap, appState,
                   readFiles, err>>

\* len(appGenTxs) == 0: "there must be at least one genesis tx"
NoGenTxs ==
    /\ pc = "CheckEmpty"
    /\ Len(appGenTxs) = 0
    /\ ReturnErr(ErrNoGenTxs)
    /\ UNCHANGED <<inputs, config, files, collected, fos, idx, addrMap, appState,
                   readFiles>>

\* GenesisStateFromGenDoc, SetGenTxsInAppGenesisState, codec.MarshalJSONIndent
CreateAppState ==
    /\ pc = "CheckEmpty"
    /\ Len(appGenTxs) # 0
    /\ appState' = MarshalJSON(
                       SetGenTxsInAppGenesisState(GenesisStateFromGenDoc(genDoc),
                                                  appGenTxs))
    /\ pc' = "Export"
    /\ UNCHANGED <<inputs, config, files, collected, fos, idx, addrMap,
                   readFiles, err>>

\* genDoc.AppState = appState; ExportGenesisFile(&genDoc, config.GenesisFile())
ExportGenesisFile ==
    /\ pc = "Export"
    /\ genesisFile' = Written([genDoc EXCEPT !.AppState = appState])
    /\ pc' = "done"
    /\ err' = Ok
    /\ UNCHANGED <<inputs, config, configFile, collected, fos, idx, addrMap,
                   appState, readFiles>>

\* ExportGenesisFile returns an error: the genesis document is not written
ExportGenesisFileFail ==
    /\ pc = "Export"
    /\ ReturnErr(ErrExportGenesisFile)
    /\ UNCHANGED <<inputs, config, files, collected, fos, idx, addrMap, appState,
                   readFiles>>

\* the caller runs the assembly once more on the same inputs
Rerun ==
    /\ pc = "done"
    /\ run = 1
    /\ run' = 2
    /\ prev' = <<[err |-> err, configFile |-> configFile,
                   genesisFile |-> genesisFile]>>
    /\ config' = Config(config.Moniker)
    /\ pc' = "ReadDir"
    /\ fos' = << >>
    /\ idx' = 1
    /\ addrMap' = << >>
    /\ appGenTxs' = << >>
    /\ addressesIPs' = << >>
    /\ persistentPeers' = << >>
    /\ appState' = Raw(<< >>)
    /\ err' = NoErr
    /\ configFile' = NotWritten
    /\ genesisFile' = NotWritten
    /\ readFiles' = << >>
    /\ UNCHANGED <<dir, genDoc>>

Next ==
    \/ ReadDirFail
    \/ ReadDir
    \/ SortDir
    \/ UnmarshalAppStateFail
    \/ BuildAddrMap
    \/ SkipEntry
    \/ ReadFileFail
    \/ UnmarshalTxFail
    \/ NoMemo
    \/ NotSingleMsg
    \/ AssertionPanic
    \/ AccountNotInGenesis
    \/ AcceptTx
    \/ SortAndJoin
    \/ WriteConfigFile
    \/ NoGenTxs
    \/ CreateAppState
    \/ ExportGenesisFile
    \/ ExportGenesisFileFail
    \/ Rerun

Spec == Init /\ [][Next]_vars

Done == pc = "done"

TypeOK ==
    /\ pc \in {"ReadDir", "SortDir", "UnmarshalAppState", "Loop", "WriteConfig",
               "CheckEmpty", "Export", "done"}
    /\ err \in {NoErr, Ok, Panic} \cup ReturnedErrors
    /\ run \in {1, 2}
    /\ Done <=> err # NoErr

-----------------------------------------------------------------------------
(* Vocabulary of the properties *)

\* the run ended by returning nil
Succeeded == Done /\ err = Ok

\* CollectStdTxs has returned without error
CollectOk ==
    \/ pc \in {"WriteConfig", "CheckEmpty", "Export"}
    \/ Done /\ err \in {Ok, ErrNoGenTxs, ErrExportGenesisFile}

NothingWritten == configFile = NotWritten /\ genesisFile = NotWritten

\* a regular file with the transaction suffix
Eligible(fo) == ~fo.isDir /\ fo.ext = ".json"

\* the transactions the loop has decoded (each is appended to appGenTxs)
Processed == 1..Len(appGenTxs)

\* s is in non-descending byte-wise order
StringsSorted(s) == \A i, j \in 1..Len(s) : i < j => ~LexLess(s[j], s[i])

\* the comma-separated entries of a peer-list string (strings.Split(s, ","))
PeerEntries(s) ==
    {SubSeq(s, q[1], q[2]) :
        q \in {r \in (1..(Len(s) + 1)) \X (0..Len(s)) :
                 /\ r[1] <= r[2] + 1
                 /\ (r[1] = 1 \/ s[r[1] - 1] = Comma)
                 /\ (r[2] = Len(s) \/ s[r[2] + 1] = Comma)
                 /\ \A k \in r[1]..r[2] : s[k] # Comma}}

\* the message carries a signer that is no key of the account index
UnknownSigner(msg) == IsCreateValidator(msg) /\ msg.Signer \notin DOMAIN addrMap

-----------------------------------------------------------------------------
(* C1: when the directory yields zero genesis transactions (it lists, the
   draft state decodes, and no entry is selected), the run ends with the
   empty-genesis error and neither output file has been written. *)
C1_EmptyFailsWithoutOutput ==
    (Done /\ CollectOk /\ \A n \in DOMAIN dir : ~Selected(dir[n]))
        => (err = ErrNoGenTxs /\ NothingWritten)

(* C2: at the end of any run the two artifacts are all-or-nothing: the config
   file is written if and only if the genesis document is written. *)
C2_AllOrNothing ==
    Done => ((configFile = NotWritten) <=> (genesisFile = NotWritten))

(* C3: if a processed transaction carries a signer that is not a key of the
   account index, the run ends with an error returned to the caller and
   neither file has been written. *)
C3_UnknownSignerFails ==
    (Done /\ \E i \in Processed :
                \E k \in 1..Len(appGenTxs[i].Msgs) :
                    UnknownSigner(appGenTxs[i].Msgs[k]))
        => (err \in ReturnedErrors /\ NothingWritten)

\* a second transaction is rejected for its signer after a first one passed
C3_Witness ==
    /\ Done
    /\ err = ErrAccountNotInGenesis
    /\ Len(appGenTxs) = 2
    /\ UnknownSigner(appGenTxs[2].Msgs[1])
    /\ NothingWritten

(* C4: a processed transaction with non-empty memo and exactly one message
   that is not a create-validator message ends the run with a validation
   error returned to the caller, never a crash and never success. *)
C4_WrongKindIsValidationError ==
    (Done /\ \E i \in Processed :
                /\ Len(appGenTxs[i].Memo) # 0
                /\ Len(appGenTxs[i].Msgs) = 1
                /\ ~IsCreateValidator(appGenTxs[i].Msgs[1]))
        => err \in ValidationErrors

(* C5: the entries that are read are exactly regular files with the .json
   suffix: no subdirectory and no file of another extension is ever read. *)
C5_OnlyEligibleRead ==
    \A i \in 1..Len(readFiles) : Eligible(dir[readFiles[i]])

(* C6: re-running on identical inputs, whatever order the directory entries
   are enumerated in, writes the same artifacts: a config file or genesis
   document written by both runs is identical in both. *)
C6_RerunIdentical ==
    (Done /\ run = 2)
        => /\ (configFile # NotWritten /\ prev[1].configFile # NotWritten)
                => configFile = prev[1].configFile
           /\ (genesisFile # NotWritten /\ prev[1].genesisFile # NotWritten)
                => genesisFile = prev[1].genesisFile

\* both runs succeeded on a directory of two different transactions
C6_Witness ==
    /\ Done
    /\ run = 2
    /\ err = Ok
    /\ prev[1].err = Ok
    /\ Len(appGenTxs) = 2
    /\ appGenTxs[1] # appGenTxs[2]
    /\ genesisFile # NotWritten
    /\ genesisFile = prev[1].genesisFile

(* C7: the peer list returned by CollectStdTxs is the memo strings of all
   transactions whose display name differs from the moniker, in
   lexicographic order and joined by single commas ("" when there is none),
   whatever the order of the files. *)
C7_PeerListSortedJoin ==
    CollectOk =>
        LET others == {n \in DOMAIN dir :
                          /\ Selected(dir[n])
                          /\ dir[n].tx.Msgs[1].Name # config.Moniker}
        IN  \E p \in Perms(others) :
                LET memos == [i \in 1..Cardinality(others) |-> dir[p[i]].tx.Memo]
                IN  /\ StringsSorted(memos)
                    /\ persistentPeers = Join(memos, <<Comma>>)

\* two peers whose file order is the reverse of their memo order
C7_Witness ==
    /\ CollectOk
    /\ DOMAIN dir = {1, 2}
    /\ dir[1].tx.Memo = MemoB
    /\ dir[2].tx.Memo = MemoAB
    /\ persistentPeers = MemoAB \o <<Comma>> \o MemoB

(* C8, as stated: in every successful run the memo of a transaction whose
   display name equals the moniker is no entry of the peer list. *)
C8_SelfMemoNeverListed ==
    Succeeded =>
        \A i \in Processed :
            appGenTxs[i].Msgs[1].Name = config.Moniker
                => appGenTxs[i].Memo \notin PeerEntries(persistentPeers)

(* C8, amended: in every successful run the memo of a transaction whose
   display name equals the moniker is an entry of the peer list only if
   another processed transaction, whose display name differs from the
   moniker, carries that string in its own memo (as the whole memo or as one
   of its comma-separated parts). *)
C8_SelfContributesNoEntry ==
    Succeeded =>
        \A i \in Processed :
            (/\ appGenTxs[i].Msgs[1].Name = config.Moniker
             /\ appGenTxs[i].Memo \in PeerEntries(persistentPeers))
                => \E j \in Processed :
                       /\ appGenTxs[j].Msgs[1].Name # config.Moniker
                       /\ appGenTxs[i].Memo \in PeerEntries(appGenTxs[j].Memo)

\* this node's transaction is left out while another validator's is listed
C8_Witness ==
    /\ Succeeded
    /\ Len(appGenTxs) = 2
    /\ appGenTxs[1].Msgs[1].Name = config.Moniker
    /\ appGenTxs[2].Msgs[1].Name # config.Moniker
    /\ persistentPeers = appGenTxs[2].Memo
    /\ appGenTxs[1].Memo \notin PeerEntries(persistentPeers)

(* C9: a processed transaction with non-empty memo and zero or more than one
   message ends the run with the single-message validation error, and a run
   succeeds only if every processed transaction has exactly one message. *)
C9_SingleMessage ==
    Done =>
        \A i \in Processed :
            /\ (Len(appGenTxs[i].Memo) # 0 /\ Len(appGenTxs[i].Msgs) # 1)
                   => (err = ErrNotSingleMsg /\ err \in ValidationErrors)
            /\ err = Ok => Len(appGenTxs[i].Msgs) = 1

\* a two-message transaction is rejected after a first transaction passed
C9_Witness ==
    /\ Done
    /\ err = ErrNotSingleMsg
    /\ Len(appGenTxs) = 2
    /\ Len(appGenTxs[2].Memo) # 0
    /\ Len(appGenTxs[2].Msgs) = 2

(* C10: after a successful run the genutil slot of the persisted application
   state is exactly the sequence of the transactions of the eligible files
   (in file-name order, one per file, each with non-empty memo, exactly one
   create-validator message and a signer in the account index), and every
   other slot is as in the draft. *)
C10_GenTxsSlotAndFrame ==
    Succeeded =>
        LET persisted == UnmarshalJSON(genesisFile[1].AppState)
            draft == UnmarshalJSON(genDoc.AppState)
            eligible == {n \in DOMAIN dir : Eligible(dir[n])}
        IN  /\ DOMAIN persisted = DOMAIN draft \cup {GenutilModule}
            /\ \A k \in DOMAIN draft \ {GenutilModule} : persisted[k] = draft[k]
            /\ \E p \in Perms(eligible) :
                   /\ \A i, j \in 1..Cardinality(eligible) : i < j => p[i] < p[j]
                   /\ persisted[GenutilModule] =
                          [i \in 1..Cardinality(eligible) |-> dir[p[i]].tx]
            /\ \A i \in 1..Len(persisted[GenutilModule]) :
                   LET tx == persisted[GenutilModule][i]
                   IN  /\ Len(tx.Memo) # 0
                       /\ Len(tx.Msgs) = 1
                       /\ IsCreateValidator(tx.Msgs[1])
                       /\ tx.Msgs[1].Signer \in DOMAIN addrMap

\* two different transactions were merged and the auth slot is as in the draft
C10_Witness ==
    /\ Succeeded
    /\ Len(appGenTxs) = 2
    /\ appGenTxs[1] # appGenTxs[2]
    /\ UnmarshalJSON(genesisFile[1].AppState)[GenutilModule] = appGenTxs
    /\ UnmarshalJSON(genesisFile[1].AppState)["auth"]
           = UnmarshalJSON(genDoc.AppState)["auth"]

====
